---- MODULE Spec2Model ----
(***************************************************************************)
(* A model of the weather chatbot: the WeatherService object (forecast     *)
(* cache, known-city set, accumulated forecasts) of                        *)
(* src/services/weather_service.py and the chat turn of                    *)
(* src/services/ui_service.py.                                             *)
(*                                                                         *)
(* The clock counts half hours.  A handler runs at one clock instant: the  *)
(* clock advances between handlers only (action Tick).                     *)
(* Upstream answers (geocoding endpoint, forecast endpoint, the two        *)
(* language-model calls) are chosen by the environment at each call.       *)
(***************************************************************************)
EXTENDS Integers, Sequences, FiniteSets, TLC

\* ------------------------------------------------------------------ bounds
Cities == {"Paris", "Oslo"}
MaxBatch == 2          \* longest city list passed to one call
MaxTicks == 3          \* clock range: StartNow .. StartNow + MaxTicks
MaxHistory == 4        \* chat entries kept before no new message is typed
SamplesPerDay == 1     \* samples of one calendar date in an upstream series
MaxSamples == 2        \* longest sample list given to the Daily Aggregator
MaxDate == 7           \* last calendar date of a daily_data given to the summary
MaxToday == 3          \* last calendar date on which the summary is computed
SampleDates == {0, 1}
SampleHours == {3, 6, 12, 18}

\* ------------------------------------------------------- program constants
CacheValidityPeriod == 2   \* timedelta(hours=1), in half hours
DayLen == 48               \* half hours in a calendar day (.date(), .days)
ForecastDays == 5          \* the upstream's 5-day horizon
StartNow == DayLen - 2     \* the session starts at 23:00 of day 0
MaxNow == StartNow + MaxTicks

Day(t) == t \div DayLen

None == [none |-> TRUE]
EmptyMap == [c \in {} |-> 0]
Put(f, k, v) == [x \in (DOMAIN f) \cup {k} |-> IF x = k THEN v ELSE f[x]]
Range(s) == {s[i] : i \in DOMAIN s}

\* City lists without repetition (detect_location deduplicates with set()).
Batches ==
  {s \in UNION {[1..n -> Cities] : n \in 0..MaxBatch} :
     \A i, j \in DOMAIN s : i # j => s[i] # s[j]}

\* ----------------------------------------------------------- environment
\* What the geocoding endpoint may answer: a match, an empty list, a non-200
\* status, a body that is not JSON, or no answer at all (requests.get raises).
GeoOutcomes == {"match", "empty", "status", "badjson", "raise"}
\* What the forecast endpoint may answer.
FcOutcomes == {"ok", "status", "badjson", "raise"}
\* The forecast endpoint is asked only after a match: fc is "none" otherwise.
Outcomes ==
  [geo : {"match"}, fc : FcOutcomes] \cup [geo : GeoOutcomes \ {"match"}, fc : {"none"}]
\* One upstream answer for each city of a list of n cities.
OutSeqs(n) == [1..n -> Outcomes]

\* The forecast series the upstream issues at time t: samples of ForecastDays
\* calendar dates from the current one; rev stands for the forecast values,
\* which the upstream revises as time passes.
UpstreamSeries(t) ==
  [list |-> [i \in 1..(SamplesPerDay * ForecastDays) |->
               [dt_date |-> Day(t) + ((i - 1) \div SamplesPerDay),
                dt_hour |-> 3 * ((i - 1) % SamplesPerDay),
                sys |-> [pod |-> "n"], pop |-> 0]],
   city |-> [sunrise |-> Day(t)],
   rev  |-> t]

VARIABLES
  weather_cache,        \* city -> <<data, timestamp>>
  locations,            \* set of known cities
  weather_forecasts,    \* city -> CityForecast or error marker
  now,                  \* datetime.now()
  chat_history,         \* st.session_state.chat_history
  pending_user_input,   \* st.session_state.pending_user_input
  rerun,                \* a script run is scheduled for the pending input
  handed,               \* what the Response Composer was last given
  passed,               \* the cities passed to get_weather_forecasts since the last reset
  last,                 \* the last call: its time, arguments, upstream answers
                        \* used, requests sent, result; the cities known before
                        \* it; whether it repeats the call before it
  arg,                  \* the argument of a call of the Daily Aggregator
  ret                   \* what that call returned

vars == <<weather_cache, locations, weather_forecasts, now, chat_history,
          pending_user_input, rerun, handed, passed, last, arg, ret>>

NoCall ==
  [op |-> "init", at |-> StartNow, cities |-> <<>>, used |-> <<>>,
   calls |-> <<>>, result |-> EmptyMap, raised |-> FALSE,
   before |-> {}, repeat |-> FALSE]

\* ------------------------------------------------------ WeatherService
\* A get_coordinates that does not test the status code.
get_coordinates_no_status_test(g) ==
  IF g \in {"match", "status"} THEN "latlon" ELSE "None"

\* get_coordinates: (lat, lon) or (None, None).
get_coordinates(g) ==
  IF g = "match" THEN "latlon" ELSE "None"

\* A validity test that still accepts an entry aged exactly the period.
CacheValidInclusive(timestamp, t) == t - timestamp <= CacheValidityPeriod

\* The validity test of fetch_weather.
CacheValid(timestamp, t) == t - timestamp < CacheValidityPeriod

InvalidCity == [error |-> "Invalid city name or coordinates could not be retrieved"]
InvalidJson == [error |-> "Invalid JSON response from API"]
StatusError == [error |-> "status_code", message |-> "response.text"]

\* An iteration in which a cache hit renews the timestamp of the entry.
fetch_city_hit_renews(acc, c, o, t) ==
  IF c \in DOMAIN acc.cache /\ CacheValid(acc.cache[c][2], t)
  THEN [acc EXCEPT !.city_forecasts = Put(@, c, acc.cache[c][1]),
                   !.cache = Put(@, c, <<acc.cache[c][1], t>>),
                   !.used = Append(@, <<c, "cached", "none">>)]
  ELSE IF o.geo = "raise"
  THEN [acc EXCEPT !.calls = Append(@, <<"geo", c>>),
                   !.used = Append(@, <<c, "raise", "none">>),
                   !.raised = TRUE]
  ELSE IF get_coordinates(o.geo) = "None"
  THEN [acc EXCEPT !.city_forecasts = Put(@, c, InvalidCity),
                   !.calls = Append(@, <<"geo", c>>),
                   !.used = Append(@, <<c, o.geo, "none">>)]
  ELSE LET called == [acc EXCEPT
                        !.calls = @ \o << <<"geo", c>>, <<"forecast", c>> >>,
                        !.used = Append(@, <<c, o.geo, o.fc>>)]
       IN CASE o.fc = "raise" -> [called EXCEPT !.raised = TRUE]
            [] o.fc = "ok" ->
                 [called EXCEPT
                    !.city_forecasts = Put(@, c, UpstreamSeries(t)),
                    !.cache = Put(@, c, <<UpstreamSeries(t), t>>)]
            [] o.fc = "badjson" ->
                 [called EXCEPT !.city_forecasts = Put(@, c, InvalidJson)]
            [] OTHER ->
                 [called EXCEPT !.city_forecasts = Put(@, c, StatusError)]

\* An iteration that records no marker for a city it cannot resolve.
fetch_city_no_marker(acc, c, o, t) ==
  IF c \in DOMAIN acc.cache /\ CacheValid(acc.cache[c][2], t)
  THEN [acc EXCEPT !.city_forecasts = Put(@, c, acc.cache[c][1]),
                   !.used = Append(@, <<c, "cached", "none">>)]
  ELSE IF o.geo = "raise"
  THEN [acc EXCEPT !.calls = Append(@, <<"geo", c>>),
                   !.used = Append(@, <<c, "raise", "none">>),
                   !.raised = TRUE]
  ELSE IF get_coordinates(o.geo) = "None"
  THEN [acc EXCEPT !.calls = Append(@, <<"geo", c>>),
                   !.used = Append(@, <<c, o.geo, "none">>)]
  ELSE LET called == [acc EXCEPT
                        !.calls = @ \o << <<"geo", c>>, <<"forecast", c>> >>,
                        !.used = Append(@, <<c, o.geo, o.fc>>)]
       IN CASE o.fc = "raise" -> [called EXCEPT !.raised = TRUE]
            [] o.fc = "ok" ->
                 [called EXCEPT
                    !.city_forecasts = Put(@, c, UpstreamSeries(t)),
                    !.cache = Put(@, c, <<UpstreamSeries(t), t>>)]
            [] o.fc = "badjson" ->
                 [called EXCEPT !.city_forecasts = Put(@, c, InvalidJson)]
            [] OTHER ->
                 [called EXCEPT !.city_forecasts = Put(@, c, StatusError)]

\* One iteration of the loop of fetch_weather for city c, upstream answer o.
\* acc = [cache, city_forecasts, calls, used, raised].
fetch_city(acc, c, o, t) ==
  IF c \in DOMAIN acc.cache /\ CacheValid(acc.cache[c][2], t)
  THEN [acc EXCEPT !.city_forecasts = Put(@, c, acc.cache[c][1]),
                   !.used = Append(@, <<c, "cached", "none">>)]
  ELSE IF o.geo = "raise"
  THEN [acc EXCEPT !.calls = Append(@, <<"geo", c>>),
                   !.used = Append(@, <<c, "raise", "none">>),
                   !.raised = TRUE]
  ELSE IF get_coordinates(o.geo) = "None"
  THEN [acc EXCEPT !.city_forecasts = Put(@, c, InvalidCity),
                   !.calls = Append(@, <<"geo", c>>),
                   !.used = Append(@, <<c, o.geo, "none">>)]
  ELSE LET called == [acc EXCEPT
                        !.calls = @ \o << <<"geo", c>>, <<"forecast", c>> >>,
                        !.used = Append(@, <<c, o.geo, o.fc>>)]
       IN CASE o.fc = "raise" -> [called EXCEPT !.raised = TRUE]
            [] o.fc = "ok" ->
                 [called EXCEPT
                    !.city_forecasts = Put(@, c, UpstreamSeries(t)),
                    !.cache = Put(@, c, <<UpstreamSeries(t), t>>)]
            [] o.fc = "badjson" ->
                 [called EXCEPT !.city_forecasts = Put(@, c, InvalidJson)]
            [] OTHER ->
                 [called EXCEPT !.city_forecasts = Put(@, c, StatusError)]

RECURSIVE fetch_loop(_, _, _, _, _)
fetch_loop(acc, cities, outs, t, i) ==
  IF i > Len(cities) \/ acc.raised THEN acc
  ELSE fetch_loop(fetch_city(acc, cities[i], outs[i], t),
                  cities, outs, t, i + 1)

\* fetch_weather(cities) on cache `cache` at time t.
fetch_weather(cache, cities, outs, t) ==
  fetch_loop([cache |-> cache, city_forecasts |-> EmptyMap, calls |-> <<>>,
              used |-> <<>>, raised |-> FALSE],
             cities, outs, t, 1)

\* A label computed from the distance in days, whichever its direction.
relative_date_abs(delta_days) ==
  LET dist == IF delta_days < 0 THEN 0 - delta_days ELSE delta_days
  IN CASE dist = 0 -> "today"
       [] dist = 1 -> "tomorrow"
       [] dist = 2 -> "in two days"
       [] dist = 3 -> "in three days"
       [] OTHER -> ""

\* The relative-date label of summarize_daily_forecast.
relative_date(delta_days) ==
  CASE delta_days = 0 -> "today"
    [] delta_days = 1 -> "tomorrow"
    [] delta_days = 2 -> "in two days"
    [] delta_days = 3 -> "in three days"
    [] OTHER -> ""

\* dict.get(k, default).
Get(d, k, default) == IF k \in DOMAIN d THEN d[k] ELSE default

\* The time blocks of parse_weather_data.
time_blocks ==
  [morning |-> <<6, 12>>, afternoon |-> <<12, 18>>, night |-> <<18, 24>>]

\* A period rule that counts the closing hour of a block in the block.
period_closed(hour) ==
  IF time_blocks.morning[1] <= hour /\ hour <= time_blocks.morning[2]
  THEN "morning"
  ELSE IF time_blocks.afternoon[1] <= hour /\ hour <= time_blocks.afternoon[2]
  THEN "afternoon"
  ELSE "night"

\* The period of the day of an hour.
period(hour) ==
  IF time_blocks.morning[1] <= hour /\ hour < time_blocks.morning[2]
  THEN "morning"
  ELSE IF time_blocks.afternoon[1] <= hour /\ hour < time_blocks.afternoon[2]
  THEN "afternoon"
  ELSE "night"

\* The value of the defaultdict for a date not seen before.  rev stands for
\* the lists of temperatures, wind, ... of the date.
new_day(rev) ==
  [pop_day |-> <<>>, pop_night |-> <<>>,
   rain |-> [morning |-> 0, afternoon |-> 0, night |-> 0],
   snow |-> [morning |-> 0, afternoon |-> 0, night |-> 0],
   rev |-> rev]

\* The body of the loop of parse_weather_data for one sample.
parse_entry(daily_data, entry, rev) ==
  LET date_str == entry.dt_date
      p == period(entry.dt_hour)
      day == Get(daily_data, date_str, new_day(rev))
      pops == IF entry.sys.pod = "d"
              THEN [day EXCEPT !.pop_day = Append(@, entry.pop * 100)]
              ELSE [day EXCEPT !.pop_night = Append(@, entry.pop * 100)]
  IN Put(daily_data, date_str,
         [pops EXCEPT
            !.rain[p] = @ + Get(Get(entry, "rain", EmptyMap), "3h", 0),
            !.snow[p] = @ + Get(Get(entry, "snow", EmptyMap), "3h", 0)])

RECURSIVE parse_loop(_, _, _, _)
parse_loop(daily_data, list, rev, i) ==
  IF i > Len(list) THEN daily_data
  ELSE parse_loop(parse_entry(daily_data, list[i], rev), list, rev, i + 1)

\* parse_weather_data: the samples gathered by calendar date, rain and snow
\* summed by period of the day.
parse_weather_data(data) ==
  parse_loop(EmptyMap, Get(data, "list", <<>>), data.rev, 1)

\* summarize_daily_forecast at time t.
summarize_daily_forecast(daily_data, t) ==
  LET today == Day(t)
  IN [d \in DOMAIN daily_data |->
        [RelativeDate |-> relative_date(d - today),
         rev |-> daily_data[d].rev]]

\* The entry get_weather_forecasts stores for one fetched city.
city_entry(data, t) ==
  IF "error" \in DOMAIN data
  THEN [error |-> data.error]
  ELSE [Sunrise |-> data.city.sunrise,
        DailyForecasts |-> summarize_daily_forecast(parse_weather_data(data), t)]

\* A filter that takes every city of the list as new.
NewCitiesAll(cities, locs) == cities

\* The cities of the list that are not known yet.
NewCities(cities, locs) == SelectSeq(cities, LAMBDA c : c \notin locs)

\* The forecasts after a fetch of the new cities that returned r.
merged(fcs, r, t) ==
  IF r.raised THEN fcs
  ELSE [c \in (DOMAIN fcs) \cup (DOMAIN r.city_forecasts) |->
          IF c \in DOMAIN r.city_forecasts
          THEN city_entry(r.city_forecasts[c], t)
          ELSE fcs[c]]

\* A get_weather_forecasts that does not record the new cities as known.
get_weather_forecasts_forgetful(cache, locs, fcs, cities, outs, t) ==
  LET r == fetch_weather(cache, NewCities(cities, locs), outs, t)
  IN [cache |-> r.cache, locations |-> locs,
      weather_forecasts |-> merged(fcs, r, t),
      calls |-> r.calls, used |-> r.used, raised |-> r.raised]

\* A get_weather_forecasts that records as known only the cities fetched
\* with success.
get_weather_forecasts_known_on_success(cache, locs, fcs, cities, outs, t) ==
  LET r == fetch_weather(cache, NewCities(cities, locs), outs, t)
  IN [cache |-> r.cache,
      locations |-> locs \cup {c \in DOMAIN r.city_forecasts :
                                 "error" \notin DOMAIN r.city_forecasts[c]},
      weather_forecasts |-> merged(fcs, r, t),
      calls |-> r.calls, used |-> r.used, raised |-> r.raised]

\* get_weather_forecasts(cities): the new service state and the call record.
get_weather_forecasts(cache, locs, fcs, cities, outs, t) ==
  LET new_cities == NewCities(cities, locs)
      locs2 == locs \cup Range(new_cities)
      r == fetch_weather(cache, new_cities, outs, t)
      fcs2 == merged(fcs, r, t)
  IN [cache |-> r.cache, locations |-> locs2, weather_forecasts |-> fcs2,
      calls |-> r.calls, used |-> r.used, raised |-> r.raised]

\* get_accumulated_data: the known cities and the forecast map.
get_accumulated_data(locs, fcs) ==
  [locations |-> locs, weather_forecasts |-> fcs]

\* A clear_data that leaves the cache.
clear_data_keeps_cache ==
  [cache |-> weather_cache, locations |-> {}, weather_forecasts |-> EmptyMap]

\* clear_data.
clear_data ==
  [cache |-> EmptyMap, locations |-> {}, weather_forecasts |-> EmptyMap]

\* ------------------------------------------------------------------ state
Init ==
  /\ weather_cache = EmptyMap
  /\ locations = {}
  /\ weather_forecasts = EmptyMap
  /\ now = StartNow
  /\ chat_history = <<>>
  /\ pending_user_input = None
  /\ rerun = FALSE
  /\ handed = None
  /\ passed = {}
  /\ last = NoCall
  /\ arg = None
  /\ ret = None

ui == <<chat_history, pending_user_input, rerun, handed>>
aggregator == <<arg, ret>>

\* Time passes between two handlers.
Tick ==
  /\ now < MaxNow
  /\ now' = now + 1
  /\ UNCHANGED <<weather_cache, locations, weather_forecasts, ui, passed, last,
                 aggregator>>

\* A client calls WeatherService.fetch_weather(cities).
FetchWeather ==
  \E cities \in Batches : \E outs \in OutSeqs(Len(cities)) :
    LET r == fetch_weather(weather_cache, cities, outs, now)
    IN /\ weather_cache' = r.cache
       /\ last' = [op |-> "fetch_weather", at |-> now, cities |-> cities, used |-> r.used,
                   calls |-> r.calls,
                   result |-> IF r.raised THEN EmptyMap ELSE r.city_forecasts,
                   raised |-> r.raised, before |-> locations, repeat |-> FALSE]
       /\ UNCHANGED <<locations, weather_forecasts, now, ui, passed, aggregator>>

\* A client calls WeatherService.get_weather_forecasts(cities).
GetWeatherForecasts ==
  \E cities \in Batches : \E outs \in OutSeqs(Len(NewCities(cities, locations))) :
    LET r == get_weather_forecasts(weather_cache, locations, weather_forecasts,
                                   cities, outs, now)
    IN /\ weather_cache' = r.cache
       /\ locations' = r.locations
       /\ weather_forecasts' = r.weather_forecasts
       /\ last' = [op |-> "get_weather_forecasts", at |-> now, cities |-> cities,
                   used |-> r.used, calls |-> r.calls,
                   result |-> IF r.raised THEN EmptyMap ELSE r.weather_forecasts,
                   raised |-> r.raised, before |-> locations,
                   repeat |-> /\ last.op = "get_weather_forecasts"
                              /\ Range(last.cities) = Range(cities)]
       /\ passed' = passed \cup Range(cities)
       /\ UNCHANGED <<now, ui, aggregator>>

\* A client calls WeatherService.clear_data().
ClearData ==
  /\ weather_cache' = clear_data.cache
  /\ locations' = clear_data.locations
  /\ weather_forecasts' = clear_data.weather_forecasts
  /\ last' = [NoCall EXCEPT !.op = "clear_data", !.at = now, !.before = locations]
  /\ passed' = {}
  /\ UNCHANGED <<now, ui, aggregator>>

\* -------------------------------------------------------- Daily Aggregator
\* The samples the aggregator is tried on: a date, an hour, a day/night
\* indicator and one of: no rain and no snow field, rain of 2, rain of 1 with
\* snow of 3 (the "3h" accumulations).
SampleKinds ==
  [date : SampleDates, hour : SampleHours, pod : {"d", "n"},
   precip : {"none", "rain", "both"}]

Entry(k) ==
  LET base == [dt_date |-> k.date, dt_hour |-> k.hour,
               sys |-> [pod |-> k.pod], pop |-> 1]
  IN CASE k.precip = "none" -> base
       [] k.precip = "rain" -> Put(base, "rain", [x \in {"3h"} |-> 2])
       [] OTHER -> Put(Put(base, "rain", [x \in {"3h"} |-> 1]),
                       "snow", [x \in {"3h"} |-> 3])

SampleLists == UNION {[1..n -> SampleKinds] : n \in 0..MaxSamples}

Series(kinds) == [list |-> [i \in DOMAIN kinds |-> Entry(kinds[i])], rev |-> 0]

\* A series of samples is given to the aggregator.
AggInit ==
  /\ weather_cache = EmptyMap
  /\ locations = {}
  /\ weather_forecasts = EmptyMap
  /\ now = StartNow
  /\ chat_history = <<>>
  /\ pending_user_input = None
  /\ rerun = FALSE
  /\ handed = None
  /\ passed = {}
  /\ last = NoCall
  /\ \E kinds \in SampleLists : arg = Series(kinds)
  /\ ret = None

\* parse_weather_data(data) returns.
ParseWeatherData ==
  /\ "list" \in DOMAIN arg
  /\ "none" \in DOMAIN ret
  /\ ret' = [daily_data |-> parse_weather_data(arg)]
  /\ UNCHANGED <<weather_cache, locations, weather_forecasts, now, ui, passed,
                 last, arg>>

\* The daily_data the summary is tried on: one or two calendar dates.
DateSets == {D \in SUBSET (0..MaxDate) : Cardinality(D) \in 1..2}

\* The instants at which it is tried: the first and the last half hour of
\* each calendar date up to MaxToday.
Instants == {k * DayLen + h : k \in 0..MaxToday, h \in {0, DayLen - 1}}

\* A daily_data is given to summarize_daily_forecast at some instant.
LabelInit ==
  /\ weather_cache = EmptyMap
  /\ locations = {}
  /\ weather_forecasts = EmptyMap
  /\ now \in Instants
  /\ chat_history = <<>>
  /\ pending_user_input = None
  /\ rerun = FALSE
  /\ handed = None
  /\ passed = {}
  /\ last = NoCall
  /\ \E D \in DateSets : arg = [daily_data |-> [d \in D |-> new_day(0)]]
  /\ ret = None

\* summarize_daily_forecast(daily_data) returns.
SummarizeDailyForecast ==
  /\ "daily_data" \in DOMAIN arg
  /\ "none" \in DOMAIN ret
  /\ ret' = [summary |-> summarize_daily_forecast(arg.daily_data, now)]
  /\ UNCHANGED <<weather_cache, locations, weather_forecasts, now, ui, passed,
                 last, arg>>

\* ------------------------------------------------------------ ChatInterface
Str(s) == [str |-> s]

\* detect_location: the cities found, or no city when the extractor failed.
detect_location(failed, found) ==
  IF failed THEN [cities |-> <<>>] ELSE [cities |-> found]

\* generate_weather_response: the reply, or the error payload of the except.
generate_weather_response(failed) ==
  IF failed THEN [error |-> "str(e)"] ELSE Str("response")

\* handle_user_input: the user submits a message.
HandleUserInput ==
  /\ Len(chat_history) + 2 <= MaxHistory
  /\ pending_user_input' = Str("prompt")
  /\ chat_history' = Append(chat_history, [role |-> "user", text |-> Str("prompt")])
  /\ rerun' = TRUE
  /\ UNCHANGED <<weather_cache, locations, weather_forecasts, now, handed,
                 passed, last, aggregator>>

\* process_input_and_generate_response, in the script run that follows.
ProcessInput ==
  /\ rerun
  /\ pending_user_input # None
  /\ \E extractor_failed \in BOOLEAN, composer_failed \in BOOLEAN :
     \E found \in (IF extractor_failed THEN {<<>>} ELSE Batches) :
       LET cities == detect_location(extractor_failed, found).cities
       IN \E outs \in OutSeqs(Len(NewCities(cities, locations))) :
            LET r == IF cities # <<>>
                     THEN get_weather_forecasts(weather_cache, locations,
                                                weather_forecasts, cities, outs, now)
                     ELSE [cache |-> weather_cache, locations |-> locations,
                           weather_forecasts |-> weather_forecasts,
                           calls |-> <<>>, used |-> <<>>, raised |-> FALSE]
                acc == get_accumulated_data(r.locations, r.weather_forecasts)
                bot_response == generate_weather_response(composer_failed)
            IN /\ weather_cache' = r.cache
               /\ locations' = r.locations
               /\ weather_forecasts' = r.weather_forecasts
               /\ last' = [op |-> "process_input", at |-> now, cities |-> cities,
                           used |-> r.used, calls |-> r.calls,
                           result |-> IF r.raised THEN EmptyMap
                                      ELSE r.weather_forecasts,
                           raised |-> r.raised, before |-> locations,
                           repeat |-> FALSE]
               /\ passed' = passed \cup Range(cities)
               /\ rerun' = FALSE
               /\ IF r.raised
                  THEN UNCHANGED <<chat_history, pending_user_input, handed>>
                  ELSE /\ handed' = [current_date |-> Day(now),
                                     extracted_location |-> acc.locations,
                                     weather_forecast |-> acc.weather_forecasts]
                       /\ chat_history' =
                            Append(chat_history,
                                   [role |-> "assistant", text |-> bot_response])
                       /\ pending_user_input' = None
               /\ UNCHANGED <<now, aggregator>>

\* reset_chat, when the Reset Chat button is pressed.
ResetChat ==
  /\ chat_history' = <<>>
  /\ pending_user_input' = None
  /\ weather_cache' = clear_data.cache
  /\ locations' = clear_data.locations
  /\ weather_forecasts' = clear_data.weather_forecasts
  /\ rerun' = FALSE
  /\ handed' = None
  /\ last' = [NoCall EXCEPT !.op = "reset_chat", !.at = now, !.before = locations]
  /\ passed' = {}
  /\ UNCHANGED <<now, aggregator>>

\* ------------------------------------------------------------------ claims
ResolverFailures == {"empty", "status", "badjson"}
FetchFailures == {"status", "badjson"}
Requests(rec, c) == {k \in DOMAIN rec.calls : rec.calls[k][2] = c}
SameEntry(f, g, c) ==
  /\ (c \in DOMAIN f) = (c \in DOMAIN g)
  /\ c \in DOMAIN f => f[c] = g[c]

\* C1: a fetch_weather lookup of a city whose entry is younger than the
\* validity period reuses the cached series and sends no request for the city;
\* a lookup of an entry aged the period or more, or of a city without an
\* entry, goes to the geocoding endpoint.
CacheValidityBoundary ==
  [][(now' = now /\ last'.op = "fetch_weather") =>
       \A i \in DOMAIN last'.used :
         LET c == last'.used[i][1]
             fresh == /\ c \in DOMAIN weather_cache
                      /\ now - weather_cache[c][2] < CacheValidityPeriod
         IN /\ fresh => /\ Requests(last', c) = {}
                         /\ SameEntry(weather_cache, weather_cache', c)
                         /\ ~last'.raised => last'.result[c] = weather_cache[c][1]
            /\ ~fresh => \E k \in Requests(last', c) : last'.calls[k][1] = "geo"
    ]_vars

\* C1 witness: a lookup in the last half hour of an entry's validity was
\* served from the cache.
CacheHitAtLastValidInstant ==
  /\ last.op = "fetch_weather"
  /\ \E i \in DOMAIN last.used :
       /\ last.used[i][2] = "cached"
       /\ last.at - weather_cache[last.used[i][1]][2] = CacheValidityPeriod - 1

\* C2: a fetch_weather call that returns holds exactly one entry for every
\* requested city: an error marker for a city whose resolution or fetch
\* failed, the forecast series for every city that succeeded, wherever the
\* failing cities stand in the list.
PerCityIsolation ==
  (last.op = "fetch_weather" /\ ~last.raised) =>
    /\ DOMAIN last.result = Range(last.cities)
    /\ Len(last.used) = Len(last.cities)
    /\ \A i \in DOMAIN last.used :
         LET c == last.used[i][1]
             g == last.used[i][2]
             f == last.used[i][3]
         IN /\ c = last.cities[i]
            /\ (g \in ResolverFailures \/ f \in FetchFailures)
                 => "error" \in DOMAIN last.result[c]
            /\ (g = "match" /\ f = "ok")
                 => last.result[c] = UpstreamSeries(last.at)
            /\ g = "cached" => last.result[c] = weather_cache[c][1]

\* C2 witness: the first city of a list of two could not be resolved and the
\* second was fetched.
FailureThenSuccess ==
  /\ last.op = "fetch_weather"
  /\ ~last.raised
  /\ Len(last.used) = 2
  /\ last.used[1][2] \in ResolverFailures
  /\ last.used[2][3] = "ok"
  /\ last.result[last.cities[2]] = UpstreamSeries(last.at)

\* C7: a city the resolver failed for gets an error marker, no forecast
\* request and no cache write; a forecast request for a city directly follows
\* a geocoding request for it that found a match.
ResolverFailureStopsFetch ==
  [][(now' = now /\ last'.op = "fetch_weather") =>
       /\ \A i \in DOMAIN last'.used :
            LET c == last'.used[i][1]
            IN last'.used[i][2] \in ResolverFailures =>
                 /\ \A k \in Requests(last', c) : last'.calls[k][1] = "geo"
                 /\ SameEntry(weather_cache, weather_cache', c)
                 /\ ~last'.raised => last'.result[c] = InvalidCity
       /\ \A k \in DOMAIN last'.calls :
            last'.calls[k][1] = "forecast" =>
              /\ k > 1
              /\ last'.calls[k - 1] = <<"geo", last'.calls[k][2]>>
              /\ \E i \in DOMAIN last'.used :
                   /\ last'.used[i][1] = last'.calls[k][2]
                   /\ last'.used[i][2] = "match"
    ]_vars

\* C7 witness: the resolver failed for a city that has a (stale) cache entry.
ResolverFailedOnStaleCity ==
  /\ last.op = "fetch_weather"
  /\ \E i \in DOMAIN last.used :
       /\ last.used[i][2] \in ResolverFailures
       /\ last.used[i][1] \in DOMAIN weather_cache

\* C13: in a fetch_weather call a cache hit leaves the entry (series and
\* timestamp) as it was; a successful upstream fetch replaces the entry of the
\* city by the new series with timestamp now; a failed resolution or fetch
\* leaves the entry of the city as it was, stale or absent, and a call in
\* which no fetch succeeds leaves the whole cache as it was; the entry of a
\* city that is not in the list does not change.
CacheWriteFrame ==
  [][(now' = now /\ last'.op = "fetch_weather") =>
       /\ \A i \in DOMAIN last'.used :
            LET c == last'.used[i][1]
                o == <<last'.used[i][2], last'.used[i][3]>>
            IN IF o = <<"match", "ok">>
               THEN /\ c \in DOMAIN weather_cache'
                    /\ weather_cache'[c] = <<UpstreamSeries(now), now>>
               ELSE SameEntry(weather_cache, weather_cache', c)
       /\ \A c \in Cities \ Range(last'.cities) :
            SameEntry(weather_cache, weather_cache', c)
       /\ (\A i \in DOMAIN last'.used :
             <<last'.used[i][2], last'.used[i][3]>> # <<"match", "ok">>)
            => weather_cache' = weather_cache
    ]_vars

\* C13 witness: one call replaced the entry of a city it fetched, was served
\* another city from an entry stored earlier, which kept its timestamp.
HitKeptAndFetchStored ==
  /\ last.op = "fetch_weather"
  /\ \E i, j \in DOMAIN last.used :
       /\ <<last.used[i][2], last.used[i][3]>> = <<"match", "ok">>
       /\ weather_cache[last.used[i][1]] = <<UpstreamSeries(last.at), last.at>>
       /\ last.used[j][2] = "cached"
       /\ weather_cache[last.used[j][1]][2] < last.at

\* Steps of the service's operations (no handler moves the clock).
Merge == now' = now /\ last'.op = "get_weather_forecasts"
Cleared == now' = now /\ last'.op = "clear_data"
Outcome(rec, c) == {<<rec.used[i][2], rec.used[i][3]>> :
                      i \in {j \in DOMAIN rec.used : rec.used[j][1] = c}}

\* C3: get_weather_forecasts(S) called again after get_weather_forecasts(S),
\* with no reset in between, sends no geocoding and no forecast request and
\* returns the same known-city set and the same forecast map.
IdempotentAccumulation ==
  [][(Merge /\ last.op = "get_weather_forecasts"
            /\ Range(last'.cities) = Range(last.cities)) =>
       /\ last'.calls = <<>>
       /\ ~last'.raised
       /\ locations' = locations
       /\ ~last.raised => last'.result = last.result
    ]_vars

\* C3 witness: a call repeated the call before it, for two cities, at a later
\* time than the first.
RepeatedMerge ==
  /\ last.op = "get_weather_forecasts"
  /\ last.repeat
  /\ Len(last.cities) = 2
  /\ last.calls = <<>>
  /\ \E c \in Range(last.cities) :
       c \in DOMAIN weather_cache /\ weather_cache[c][2] < last.at

\* C4: while a city is known, no get_weather_forecasts call sends a request
\* for it and its accumulated forecast stays as it is, until clear_data; also
\* when its cache entry is older than the validity period.
KnownCityNeverRefetched ==
  [][\A c \in locations :
       ~Cleared =>
         /\ c \in locations'
         /\ SameEntry(weather_forecasts, weather_forecasts', c)
         /\ Merge => Requests(last', c) = {}
    ]_vars

\* C4 witness: a known city whose cache entry had expired was requested again
\* and nothing was sent.
KnownCityRequestedAfterExpiry ==
  /\ last.op = "get_weather_forecasts"
  /\ last.calls = <<>>
  /\ \E c \in Range(last.cities) :
       /\ c \in last.before
       /\ c \in DOMAIN weather_cache
       /\ last.at - weather_cache[c][2] >= CacheValidityPeriod

\* C5: clear_data leaves the cache, the known-city set and the forecast map
\* empty, all three in one step, and the next get_weather_forecasts call asks
\* the upstream again for the cities it is given.
ResetAtomicity ==
  [][/\ Cleared =>
          /\ weather_cache' = EmptyMap
          /\ locations' = {}
          /\ weather_forecasts' = EmptyMap
     /\ (Merge /\ last.op = "clear_data" /\ last'.cities # <<>>) =>
          /\ last'.calls[1] = <<"geo", last'.cities[1]>>
          /\ \A i \in DOMAIN last'.used :
               /\ last'.used[i][2] # "cached"
               /\ \E k \in Requests(last', last'.used[i][1]) :
                    last'.calls[k][1] = "geo"
          /\ ~last'.raised => Len(last'.used) = Len(last'.cities)
    ]_vars

\* C5 witness: clear_data was called while both cities were known, one of
\* them cached.
ResetOfKnownCities ==
  /\ last.op = "clear_data"
  /\ last.before = Cities
  /\ weather_cache = EmptyMap /\ locations = {} /\ weather_forecasts = EmptyMap

\* C6, as claimed: a city gains a cache entry, and membership in the
\* known-city set, only in a step in which its fetch succeeded.
KnownOnlyAfterSuccess ==
  [][\A c \in Cities :
       /\ (c \notin DOMAIN weather_cache /\ c \in DOMAIN weather_cache')
            => (Merge /\ <<"match", "ok">> \in Outcome(last', c))
       /\ (c \notin locations /\ c \in locations')
            => (Merge /\ <<"match", "ok">> \in Outcome(last', c))
    ]_vars

\* C6, amended: a city gains a cache entry only in a step in which its fetch
\* succeeded; it becomes known exactly when get_weather_forecasts is given it
\* and it was not known, whatever the outcome of its fetch; when the call
\* returns, a city whose resolution or fetch failed is known and its forecast
\* is an error marker.
KnownWhenRequested ==
  [][\A c \in Cities :
       /\ (c \notin DOMAIN weather_cache /\ c \in DOMAIN weather_cache')
            => /\ Merge /\ <<"match", "ok">> \in Outcome(last', c)
               /\ weather_cache'[c] = <<UpstreamSeries(now), now>>
       /\ (c \notin locations /\ c \in locations')
            <=> (Merge /\ c \in Range(last'.cities) /\ c \notin locations)
       /\ (Merge /\ ~last'.raised
              /\ \E o \in Outcome(last', c) :
                   o[1] \in ResolverFailures \/ o[2] \in FetchFailures)
            => /\ c \in locations'
               /\ c \notin DOMAIN weather_cache'
               /\ "error" \in DOMAIN weather_forecasts'[c]
    ]_vars

\* C6 witness: a city that could not be resolved became known, with an error
\* marker and no cache entry.
FailedCityIsKnown ==
  /\ last.op = "get_weather_forecasts"
  /\ ~last.raised
  /\ \E c \in locations \ last.before :
       /\ \E o \in Outcome(last, c) : o[1] \in ResolverFailures
       /\ c \notin DOMAIN weather_cache
       /\ weather_forecasts[c] = InvalidCity

\* C8: without a reset, the known-city set and the forecast map hold every
\* city passed to an earlier get_weather_forecasts call, the known-city set
\* only grows, and requests are sent only for cities that were not known.
FullAccumulatedState ==
  [][/\ passed' \subseteq locations'
     /\ passed' \subseteq DOMAIN weather_forecasts'
     /\ (Merge /\ ~last'.raised) => passed' \subseteq DOMAIN last'.result
     /\ ~Cleared => locations \subseteq locations'
     /\ Merge => \A k \in DOMAIN last'.calls : last'.calls[k][2] \notin locations
    ]_vars

\* C9: the script run that processes a pending message appends exactly one
\* assistant entry to the chat history and clears the pending input, whatever
\* the extractor, the upstream and the composer answer.
EveryTurnProducesOutput ==
  [][(rerun /\ now' = now /\ last'.op = "process_input") =>
       /\ Len(chat_history') = Len(chat_history) + 1
       /\ chat_history'[Len(chat_history')].role = "assistant"
       /\ pending_user_input' = None
    ]_vars

\* C10: the relative-date label of every daily summary handed to the
\* Response Composer is the label of (summary date - current date of that
\* turn).
LabelsRecomputedEachTurn ==
  "current_date" \in DOMAIN handed =>
    \A c \in DOMAIN handed.weather_forecast :
      LET f == handed.weather_forecast[c]
      IN "DailyForecasts" \in DOMAIN f =>
           \A d \in DOMAIN f.DailyForecasts :
             f.DailyForecasts[d].RelativeDate = relative_date(d - handed.current_date)

\* C14: in every state reached by get_weather_forecasts and clear_data calls
\* the known-city set is the key set of the forecast map, and every city with
\* a cache entry is a known city whose forecast is not an error marker.
AccumulatorConsistent ==
  /\ locations = DOMAIN weather_forecasts
  /\ \A c \in DOMAIN weather_cache :
       /\ c \in locations
       /\ c \in DOMAIN weather_forecasts
       /\ "error" \notin DOMAIN weather_forecasts[c]

RECURSIVE SumOver(_, _)
SumOver(f, S) ==
  IF S = {} THEN 0
  ELSE LET x == CHOOSE y \in S : TRUE IN f[x] + SumOver(f, S \ {x})

Periods == {"morning", "afternoon", "night"}
InPeriod(p, h) ==
  CASE p = "morning" -> 6 <= h /\ h < 12
    [] p = "afternoon" -> 12 <= h /\ h < 18
    [] OTHER -> (18 <= h /\ h < 24) \/ (0 <= h /\ h < 6)
Parsed == "daily_data" \in DOMAIN ret

\* C11: for every date, the rain (and snow) total of a period is the sum of
\* the 3-hour accumulations of the samples of that date whose hour lies in
\* the period, morning [6,12), afternoon [12,18), night every other hour; a
\* sample without the field adds 0; the day/night indicator plays no part.
PrecipitationBucketing ==
  Parsed =>
    LET list == arg.list
        daily_data == ret.daily_data
        rain == [i \in DOMAIN list |->
                   IF "rain" \in DOMAIN list[i] THEN list[i].rain["3h"] ELSE 0]
        snow == [i \in DOMAIN list |->
                   IF "snow" \in DOMAIN list[i] THEN list[i].snow["3h"] ELSE 0]
        Of(d, p) == {i \in DOMAIN list :
                       list[i].dt_date = d /\ InPeriod(p, list[i].dt_hour)}
    IN /\ DOMAIN daily_data = {list[i].dt_date : i \in DOMAIN list}
       /\ \A d \in DOMAIN daily_data : \A p \in Periods :
            /\ daily_data[d].rain[p] = SumOver(rain, Of(d, p))
            /\ daily_data[d].snow[p] = SumOver(snow, Of(d, p))

\* C11 witness: a date with rain of 2 in the morning and, from a sample at
\* 03:00, rain of 1 and snow of 3 in the night.
MorningAndEarlyNightRain ==
  /\ Parsed
  /\ \E d \in DOMAIN ret.daily_data :
       /\ ret.daily_data[d].rain = [morning |-> 2, afternoon |-> 0, night |-> 1]
       /\ ret.daily_data[d].snow = [morning |-> 0, afternoon |-> 0, night |-> 3]
       /\ \E i \in DOMAIN arg.list :
            arg.list[i].dt_date = d /\ arg.list[i].dt_hour = 3

Summarized == "summary" \in DOMAIN ret

\* C12: the label of a summary date d computed on the current date t is
\* "today", "tomorrow", "in two days", "in three days" when d - t is 0, 1, 2,
\* 3 days, and the empty string for every other difference: 4 days or more
\* ahead, and every date before t.
RelativeDateLabeling ==
  Summarized =>
    /\ DOMAIN ret.summary = DOMAIN arg.daily_data
    /\ \A d \in DOMAIN ret.summary :
         LET t == now \div DayLen
             label == ret.summary[d].RelativeDate
         IN /\ d - t = 0 => label = "today"
            /\ d - t = 1 => label = "tomorrow"
            /\ d - t = 2 => label = "in two days"
            /\ d - t = 3 => label = "in three days"
            /\ (d - t >= 4 \/ d < t) => label = ""

\* C12 witness: a summary of a date before the current one, labelled with the
\* empty string, next to a date three days ahead.
PastDateAndThreeDaysAhead ==
  /\ Summarized
  /\ \E d, e \in DOMAIN ret.summary :
       /\ d < now \div DayLen
       /\ ret.summary[d].RelativeDate = ""
       /\ e = (now \div DayLen) + 3
       /\ ret.summary[e].RelativeDate = "in three days"

\* -------------------------------------------------------- specifications
\* The accumulator, driven as the application drives it.
Next == Tick \/ GetWeatherForecasts \/ ClearData

Spec == Init /\ [][Next]_vars

\* The forecast fetcher and its cache, driven directly.
FetchNext == Tick \/ FetchWeather \/ ClearData

FetchSpec == Init /\ [][FetchNext]_vars

\* The chat application.
AppNext == Tick \/ HandleUserInput \/ ProcessInput \/ ResetChat

AppSpec == Init /\ [][AppNext]_vars

\* The Daily Aggregator, applied to a series of samples.
AggNext == ParseWeatherData

AggSpec == AggInit /\ [][AggNext]_vars

\* The relative-date labels, applied to a daily_data at an instant.
LabelNext == SummarizeDailyForecast

LabelSpec == LabelInit /\ [][LabelNext]_vars

====
